---- MODULE Spec2Model ----
(***************************************************************************)
(* thor: a Lightning Address (LUD-06 / LUD-16) endpoint.  The model covers *)
(* start-up (Config::validate, AppState::new) and the two HTTP handlers of *)
(* src/http_server.rs, get_lnurlp_info and create_invoice, the latter with *)
(* its shuffle and its bounded sequential failover over the user's wallet  *)
(* backends.  A handler is cut into steps at its await points only.        *)
(***************************************************************************)
EXTENDS Naturals, Sequences, FiniteSets, TLC

\* Bounds of the model.
MaxRequests == 2    \* request slots served concurrently (Spec)
MaxBackends == 2    \* longest backend list of a user under Spec
WideBackends == 5   \* longest backend list of a user under SpecWide

Requests == 1..MaxRequests

\* Inputs: the path's username and the raw query string of the invoice route.
Usernames == {"alice", "bob", "mallory"}
RawQueries == {"amount=0", "amount=1500", "amount=abc", "comment=hi"}

Min(a, b) == IF a <= b THEN a ELSE b
Range(s) == {s[i] : i \in DOMAIN s}

\* Option<T>
None == [tag |-> "None"]
Some(v) == [tag |-> "Some", v |-> v]
\* Result<T, E>
Ok(v) == [tag |-> "Ok", v |-> v]
Err(e) == [tag |-> "Err", e |-> e]
\* A backend call that has not returned yet.
Pending == [tag |-> "Pending"]

---------------------------------------------------------------------------
\* Configuration (src/config.rs).

NwcStr(i) == "nwc://wallet" \o ToString(i)

UserConfig(name, n) == [name |-> name, nwcs |-> [i \in 1..n |-> NwcStr(i)]]

\* The configurations a run may be started with: alice has 0..maxN wallet
\* connections (0 is the configuration validate rejects), bob has one.
Configs(maxN) ==
    { [server |-> [domain |-> "example.com"],
       users |-> << UserConfig("alice", n), UserConfig("bob", 1) >>] : n \in 0..maxN }

\* A validation that accepts every configuration.
ValidateAcceptsAll(config) == Ok("unit")

\* Config::validate: the first user without a wallet connection is an error.
validate(config) ==
    LET empty == {i \in DOMAIN config.users : config.users[i].nwcs = << >>}
        first == CHOOSE i \in empty : \A j \in empty : i <= j
    IN  IF empty = {} THEN Ok("unit")
        ELSE Err([message |-> "user " \o config.users[first].name \o " has no NWC configured"])

\* NwcInvoiceCreator::new: one creator per connection string.
NwcInvoiceCreatorNew(nwc_str) == [nwc |-> nwc_str]

\* AppState::new: the users map; a later entry of the same name replaces an
\* earlier one (HashMap::insert), each list keeps the configured order.
AppStateNew(config) ==
    LET names == {config.users[i].name : i \in DOMAIN config.users}
        last(name) == CHOOSE i \in DOMAIN config.users :
                        /\ config.users[i].name = name
                        /\ \A j \in DOMAIN config.users :
                               config.users[j].name = name => j <= i
    IN  [domain |-> config.server.domain,
         users |-> [name \in names |->
                      [k \in DOMAIN config.users[last(name)].nwcs |->
                          NwcInvoiceCreatorNew(config.users[last(name)].nwcs[k])]]]

\* The state before AppState::new has run.
NoState == [domain |-> "", users |-> << >>]

---------------------------------------------------------------------------
\* Errors and responses (src/error.rs).

OK == 200
BAD_REQUEST == 400
INTERNAL_SERVER_ERROR == 500

Lud06ErrorNew(reason) == [status |-> "ERROR", reason |-> reason]

\* impl From<anyhow::Error> for Lud06Error: the reason is e.to_string().
Lud06ErrorFrom(e) == [status |-> "ERROR", reason |-> e.message]

HttpErrorNew(status_code, e) == [status_code |-> status_code, e |-> e]

\* impl From<anyhow::Error> for HttpError
HttpErrorFrom(e) == HttpErrorNew(INTERNAL_SERVER_ERROR, Lud06ErrorFrom(e))

\* Json(body).into_response() with the given status.
JsonResponse(status, body) ==
    [status |-> status, content_type |-> "application/json", body |-> body]

\* impl IntoResponse for HttpError
IntoResponse(http_error) == JsonResponse(http_error.status_code, http_error.e)

\* The framework's answer when an extractor rejects the request: the
\* rejection's text, not a JSON document.
TextResponse(status, text) ==
    [status |-> status, content_type |-> "text/plain; charset=utf-8",
     body |-> [text |-> text]]

NoResponse == [status |-> 0, content_type |-> "", body |-> [text |-> ""]]

---------------------------------------------------------------------------
\* Pure parts of src/http_server.rs.

\* serde_json's rendering of a string without characters to escape.
JsonString(s) == "\"" \o s \o "\""
JsonPair(a, b) == "[" \o JsonString(a) \o "," \o JsonString(b) \o "]"

generate_metadata(st, username) ==
    "[" \o JsonPair("text/identifier", username \o "@" \o st.domain)
        \o "," \o JsonPair("text/plain", "sats for " \o username \o "@" \o st.domain)
        \o "," \o JsonPair("text/plain", "powered by https://github.com/yfaming/thor")
        \o "]"

\* format!("{}", Sha256::hash(bytes)): the digest is modelled as an ideal
\* (collision-free) hash, a tagged value that is equal exactly for equal inputs.
Sha256Hex(s) == "sha256:" \o s

\* A u64 beyond 32 bits, as hi * 10^9 + lo.
U64(hi, lo) == [hi |-> hi, lo |-> lo]

\* A document whose callback is the info route and whose bounds are swapped.
LnUrlPayInfoWrong(st, username) ==
    [callback |-> "https://" \o st.domain \o "/.well-known/lnurlp/" \o username,
     maxSendable |-> U64(0, 1000),
     minSendable |-> U64(100, 0),
     metadata |-> generate_metadata(st, username),
     tag |-> "payRequest"]

LnUrlPayInfo(st, username) ==
    [callback |-> "https://" \o st.domain \o "/lnurlp/" \o username,
     maxSendable |-> U64(100, 0),
     minSendable |-> U64(0, 1000),
     metadata |-> generate_metadata(st, username),
     tag |-> "payRequest"]

InvoiceResponse(invoice) == [pr |-> invoice, routes |-> << >>]

\* Query<Amount>: the query string must hold an unsigned integer `amount`;
\* one that holds none, or no integer, is rejected by the extractor.
QueryExtract(raw) ==
    CASE raw = "amount=0" -> Ok([amount |-> 0])
      [] raw = "amount=1500" -> Ok([amount |-> 1500])
      [] raw = "amount=abc" ->
           Err("Failed to deserialize query string: amount: invalid digit found in string")
      [] OTHER ->
           Err("Failed to deserialize query string: missing field amount")

\* The request's amount once the query has been extracted.
AmountOf(raw) == QueryExtract(raw).v.amount

\* A handler without the amount check.
AmountNeverInvalid(amount) == FALSE

\* `amount.amount == 0`
InvalidAmount(amount) == amount = 0

\* A reason that leaves the username out.
NotFoundReasonNoName(username) == "user not found"

\* format!("user {} not found", username)
NotFoundReason(username) == "user " \o username \o " not found"

UserNotFound(username) ==
    HttpErrorNew(BAD_REQUEST, Lud06ErrorNew(NotFoundReason(username)))

\* creators.shuffle(&mut rand::rng()): any order of the list's positions.
RECURSIVE Orders(_)
Orders(S) ==
    IF S = {} THEN { << >> }
    ELSE UNION { { << i >> \o q : q \in Orders(S \ {i}) } : i \in S }
\* The configured order, never shuffled.
NoShuffle(list) == { list }

Shuffle(list) == { [i \in DOMAIN list |-> list[q[i]]] : q \in Orders(DOMAIN list) }

\* A description hash taken over the identifier instead of the metadata.
HashOfIdentifier(st, username) == Sha256Hex(username \o "@" \o st.domain)

DescriptionHash(st, username) == Sha256Hex(generate_metadata(st, username))

\* The wallet behind a creator (external): it returns an invoice for the
\* amount and description hash, or fails with its own error.
Invoice(creator, amount_msat, description_hash) ==
    "lnbc:" \o creator.nwc \o ":" \o ToString(amount_msat) \o ":" \o description_hash
BackendError(creator) == [message |-> "make_invoice failed at " \o creator.nwc]
BackendResults(call) ==
    { Ok(Invoice(call.creator, call.amount_msat, call.description_hash)),
      Err(BackendError(call.creator)) }

---------------------------------------------------------------------------
\* State.

VARIABLES
    phase,              \* "loading", "serving" or "exited" (main)
    exit_err,           \* the error main returned, if it did
    config,             \* the configuration file's content
    state,              \* Arc<AppState>: domain and users
    pc,                 \* per request: "idle", "awaiting", "responded", "panicked"
    request,            \* per request: endpoint, username, raw query
    creators,           \* per request: the shuffled working list
    idx,                \* per request: how many creators the loop has taken
    description_hash,   \* per request: create_invoice's description_hash
    last_err,           \* per request: create_invoice's last_err
    calls,              \* per request: the backend calls made, with their results
    resp                \* per request: the response sent

vars == << phase, exit_err, config, state, pc, request, creators, idx, description_hash,
           last_err, calls, resp >>

NoRequest == [endpoint |-> "", username |-> "", query |-> ""]

InitWith(maxN) ==
    /\ phase = "loading"
    /\ exit_err = None
    /\ config \in Configs(maxN)
    /\ state = NoState
    /\ pc = [r \in Requests |-> "idle"]
    /\ request = [r \in Requests |-> NoRequest]
    /\ creators = [r \in Requests |-> << >>]
    /\ idx = [r \in Requests |-> 0]
    /\ description_hash = [r \in Requests |-> ""]
    /\ last_err = [r \in Requests |-> None]
    /\ calls = [r \in Requests |-> << >>]
    /\ resp = [r \in Requests |-> NoResponse]

Init == InitWith(MaxBackends)
InitWide == InitWith(WideBackends)

\* main: load and validate the configuration, build the state, serve.
Main ==
    /\ phase = "loading"
    /\ IF validate(config).tag = "Ok"
       THEN phase' = "serving" /\ state' = AppStateNew(config) /\ exit_err' = exit_err
       ELSE phase' = "exited" /\ state' = state /\ exit_err' = Some(validate(config).e)
    /\ UNCHANGED << config, pc, request, creators, idx, description_hash,
                    last_err, calls, resp >>

\* The response is sent but the handler does not return.
RespondKeepsRunning(r, response) ==
    /\ resp' = [resp EXCEPT ![r] = response]
    /\ UNCHANGED << pc, idx, description_hash, last_err >>

\* The handler returns: the response is sent and the loop's locals are gone.
Respond(r, response) ==
    /\ resp' = [resp EXCEPT ![r] = response]
    /\ pc' = [pc EXCEPT ![r] = "responded"]
    /\ idx' = [idx EXCEPT ![r] = 0]
    /\ description_hash' = [description_hash EXCEPT ![r] = ""]
    /\ last_err' = [last_err EXCEPT ![r] = None]

\* GET /.well-known/lnurlp/{username}
get_lnurlp_info(r, username) ==
    /\ phase = "serving"
    /\ pc[r] = "idle"
    /\ request' = [request EXCEPT ![r] =
                      [endpoint |-> "info", username |-> username, query |-> ""]]
    /\ IF username \notin DOMAIN state.users
       THEN Respond(r, IntoResponse(UserNotFound(username)))
       ELSE Respond(r, JsonResponse(OK, LnUrlPayInfo(state, username)))
    /\ UNCHANGED << phase, exit_err, config, state, creators, calls >>

\* A shuffle of the shared list itself.
ShuffleInPlace(r, username, perm) ==
    /\ perm \in Shuffle(state.users[username])
    /\ creators' = [creators EXCEPT ![r] = perm]
    /\ state' = [state EXCEPT !.users[username] = perm]

\* The working copy of the user's creators is shuffled; the shared state is
\* only read.
ShuffleCopy(r, username, perm) ==
    /\ perm \in Shuffle(state.users[username])
    /\ creators' = [creators EXCEPT ![r] = perm]
    /\ state' = state

\* A loop that gives up one attempt early.
AttemptLimitTwo == 3 - 1

\* `take(3)`
AttemptLimit == 3

\* A loop without its bound.
TakeAll(s, n) == s

Take(s, n) == SubSeq(s, 1, Min(n, Len(s)))

NewCall(creator, amount_msat, hash) ==
    [creator |-> creator, amount_msat |-> amount_msat,
     description_hash |-> hash, result |-> Pending]

\* Every remaining creator of the bounded list called at once, none awaited.
StartAll(cs, list, k, amount_msat, hash) ==
    cs \o [i \in 1..(Len(Take(list, AttemptLimit)) - k) |->
              NewCall(list[k + i], amount_msat, hash)]

\* creator.create_invoice(amount.amount, &description_hash): the call to the
\* creator of turn k + 1 joins the request's calls cs, in flight.
StartCall(cs, list, k, amount_msat, hash) ==
    Append(cs, NewCall(list[k + 1], amount_msat, hash))

\* `for creator in creators.iter().take(3)` from its turn k + 1 on, run to
\* the next await or to the handler's end: the next creator is called, or the
\* loop is over and last_err decides the response.  cs are the request's
\* calls so far, le is last_err.
Loop(r, list, cs, amount_msat, hash, k, le) ==
    IF k < Len(Take(list, AttemptLimit))
    THEN /\ calls' = [calls EXCEPT ![r] = StartCall(cs, list, k, amount_msat, hash)]
         /\ idx' = [idx EXCEPT ![r] = k + 1]
         /\ description_hash' = [description_hash EXCEPT ![r] = hash]
         /\ last_err' = [last_err EXCEPT ![r] = le]
         /\ pc' = [pc EXCEPT ![r] = "awaiting"]
         /\ resp' = resp
    ELSE IF le.tag = "Some"
    THEN /\ Respond(r, IntoResponse(HttpErrorFrom(le.v)))
         /\ calls' = [calls EXCEPT ![r] = cs]
    ELSE /\ pc' = [pc EXCEPT ![r] = "panicked"]    \* unreachable!()
         /\ calls' = [calls EXCEPT ![r] = cs]
         /\ UNCHANGED << idx, description_hash, last_err, resp >>

\* GET /lnurlp/{username}?amount=..., up to the first backend call.
\* The handler with the username looked up before the amount is checked.
create_invoice_lookup_first(r, username, raw) ==
    /\ phase = "serving"
    /\ pc[r] = "idle"
    /\ request' = [request EXCEPT ![r] =
                      [endpoint |-> "invoice", username |-> username, query |-> raw]]
    /\ IF QueryExtract(raw).tag = "Err"
       THEN /\ Respond(r, TextResponse(BAD_REQUEST, QueryExtract(raw).e))
            /\ UNCHANGED << state, creators, calls >>
       ELSE IF username \notin DOMAIN state.users
       THEN /\ Respond(r, IntoResponse(UserNotFound(username)))
            /\ UNCHANGED << state, creators, calls >>
       ELSE IF InvalidAmount(AmountOf(raw))
       THEN /\ Respond(r, IntoResponse(
                     HttpErrorNew(BAD_REQUEST, Lud06ErrorNew("amount must > 0"))))
            /\ UNCHANGED << state, creators, calls >>
       ELSE \E perm \in Shuffle(state.users[username]) :
               /\ ShuffleCopy(r, username, perm)
               /\ Loop(r, perm, calls[r], AmountOf(raw),
                       DescriptionHash(state, username), 0, None)
    /\ UNCHANGED << phase, exit_err, config >>

create_invoice(r, username, raw) ==
    /\ phase = "serving"
    /\ pc[r] = "idle"
    /\ request' = [request EXCEPT ![r] =
                      [endpoint |-> "invoice", username |-> username, query |-> raw]]
    /\ IF QueryExtract(raw).tag = "Err"
       THEN /\ Respond(r, TextResponse(BAD_REQUEST, QueryExtract(raw).e))
            /\ UNCHANGED << state, creators, calls >>
       ELSE IF InvalidAmount(AmountOf(raw))
       THEN /\ Respond(r, IntoResponse(
                     HttpErrorNew(BAD_REQUEST, Lud06ErrorNew("amount must > 0"))))
            /\ UNCHANGED << state, creators, calls >>
       ELSE IF username \notin DOMAIN state.users
       THEN /\ Respond(r, IntoResponse(UserNotFound(username)))
            /\ UNCHANGED << state, creators, calls >>
       ELSE \E perm \in Shuffle(state.users[username]) :
               /\ ShuffleCopy(r, username, perm)
               /\ Loop(r, perm, calls[r], AmountOf(raw),
                       DescriptionHash(state, username), 0, None)
    /\ UNCHANGED << phase, exit_err, config >>

\* The invoice is logged and the loop goes on: the `return` is missing.
OnOkContinue(r, cs, invoice) ==
    Loop(r, creators[r], cs, AmountOf(request[r].query), description_hash[r],
         idx[r], last_err[r])

\* Ok(invoice) => return Ok(Json(InvoiceResponse { .. }))
OnOk(r, cs, invoice) ==
    /\ Respond(r, JsonResponse(OK, InvoiceResponse(invoice)))
    /\ calls' = [calls EXCEPT ![r] = cs]

\* The first error is kept, later ones are dropped.
KeepFirstErr(last, e) == IF last.tag = "Some" THEN last ELSE Some(e)

\* The error is logged and not recorded.
DropErr(last, e) == last

\* last_err = Some(e)
RecordErr(last, e) == Some(e)

\* The first backend error ends the request: no failover.
FailFast(r, cs, e) ==
    /\ Respond(r, IntoResponse(HttpErrorFrom(e)))
    /\ calls' = [calls EXCEPT ![r] = cs]

\* Err(e) => { last_err = Some(e); } and the loop takes its next turn.
OnErr(r, cs, e) ==
    Loop(r, creators[r], cs, AmountOf(request[r].query), description_hash[r],
         idx[r], RecordErr(last_err[r], e))

\* A lock held across the await: a handler resumes only when no request of
\* a lower slot is suspended.
ResumableInTurn(r) ==
    /\ pc[r] = "awaiting"
    /\ \A q \in Requests : q < r => pc[q] # "awaiting"

\* The handler suspended in `.await` can resume when its own call returns;
\* nothing else is waited for.
Resumable(r) == pc[r] = "awaiting"

\* The backend call in flight returns and the handler resumes.
backend_returns(r) ==
    /\ Resumable(r)
    /\ \E res \in BackendResults(calls[r][Len(calls[r])]) :
          LET cs == [calls[r] EXCEPT ![Len(calls[r])].result = res]
          IN  IF res.tag = "Ok" THEN OnOk(r, cs, res.v) ELSE OnErr(r, cs, res.e)
    /\ UNCHANGED << phase, exit_err, config, state, request, creators >>

\* The connection is done with; its slot serves the next request.
close(r) ==
    /\ pc[r] = "responded"
    /\ pc' = [pc EXCEPT ![r] = "idle"]
    /\ request' = [request EXCEPT ![r] = NoRequest]
    /\ creators' = [creators EXCEPT ![r] = << >>]
    /\ calls' = [calls EXCEPT ![r] = << >>]
    /\ resp' = [resp EXCEPT ![r] = NoResponse]
    /\ UNCHANGED << phase, exit_err, config, state, idx, description_hash, last_err >>

Info(R) == \E r \in R, username \in Usernames : get_lnurlp_info(r, username)
CreateInvoice(R) ==
    \E r \in R, username \in Usernames, raw \in RawQueries :
        create_invoice(r, username, raw)
BackendReturns(R) == \E r \in R : backend_returns(r)
Close(R) == \E r \in R : close(r)

\* Concurrent requests over short backend lists.
Next ==
    \/ Main
    \/ Info(Requests)
    \/ CreateInvoice(Requests)
    \/ BackendReturns(Requests)
    \/ Close(Requests)

Spec == Init /\ [][Next]_vars

\* One request at a time over long backend lists.
NextWide ==
    \/ Main
    \/ Info({1})
    \/ CreateInvoice({1})
    \/ BackendReturns({1})
    \/ Close({1})

SpecWide == InitWide /\ [][NextWide]_vars

\* The same, with every backend call returning eventually: a suspended
\* handler whose call can return is resumed.
SpecWideFair == SpecWide /\ WF_vars(BackendReturns({1}))

---------------------------------------------------------------------------
\* Properties.

IsInvoice(r) == request[r].endpoint = "invoice"
IsInfo(r) == request[r].endpoint = "info"
Known(r) == request[r].username \in DOMAIN state.users
Configured(r) == state.users[request[r].username]
AllFailed(r) == \A i \in DOMAIN calls[r] : calls[r][i].result.tag = "Err"
IsJson(r) == resp[r].content_type = "application/json"
ErrorBody(reason) == [status |-> "ERROR", reason |-> reason]

\* C1: a request makes at most 3 backend calls, never more than
\* min(3, number of the user's backends), and calls no backend twice,
\* whatever the length of the user's list and the shuffle.
C1_AttemptBound ==
    \A r \in Requests :
        \/ calls[r] = << >>
        \/ /\ Known(r)
           /\ Len(calls[r]) <= 3
           /\ Len(calls[r]) <= Min(3, Len(Configured(r)))
           /\ \A i, j \in DOMAIN calls[r] :
                 calls[r][i].creator = calls[r][j].creator => i = j

\* A user with 5 backends whose request ended after 3 failed calls.
C1_Witness ==
    \E r \in Requests :
        /\ pc[r] = "responded"
        /\ Known(r)
        /\ Len(Configured(r)) >= 5
        /\ Len(calls[r]) = 3
        /\ AllFailed(r)

\* C2: a backend call that returned an invoice is the request's last call,
\* and the request is answered 200 with that invoice as pr and no routes.
C2_FirstSuccessWins ==
    \A r \in Requests :
        \A i \in DOMAIN calls[r] :
            calls[r][i].result.tag = "Ok" =>
                /\ i = Len(calls[r])
                /\ pc[r] = "responded"
                /\ resp[r].status = 200
                /\ IsJson(r)
                /\ resp[r].body = [pr |-> calls[r][i].result.v, routes |-> << >>]

\* The second call succeeded while a third backend was still untried.
C2_Witness ==
    \E r \in Requests :
        /\ pc[r] = "responded"
        /\ Len(calls[r]) = 2
        /\ calls[r][2].result.tag = "Ok"
        /\ Len(creators[r]) >= 3

\* C3: when every attempted backend failed, the answer is 500 and its reason
\* is the error of the last attempt, not of an earlier one; with 2 backends
\* both failing there are exactly 2 attempts.
C3_LastErrorReported ==
    \A r \in Requests :
        (pc[r] = "responded" /\ calls[r] # << >> /\ AllFailed(r)) =>
            /\ resp[r].status = 500
            /\ IsJson(r)
            /\ resp[r].body = ErrorBody(calls[r][Len(calls[r])].result.e.message)
            /\ \A i \in 1..(Len(calls[r]) - 1) :
                  resp[r].body.reason # calls[r][i].result.e.message
            /\ (Len(Configured(r)) = 2 => Len(calls[r]) = 2)

\* Both backends of a user with 2 backends failed.
C3_Witness ==
    \E r \in Requests :
        /\ pc[r] = "responded"
        /\ Known(r)
        /\ Len(Configured(r)) = 2
        /\ Len(calls[r]) = 2
        /\ AllFailed(r)
        /\ resp[r].status = 500

\* C4: an invoice request with amount = 0 is answered 400 with reason
\* "amount must > 0" and makes no backend call.
C4_ZeroAmountRejected ==
    \A r \in Requests :
        (IsInvoice(r) /\ request[r].query = "amount=0") =>
            /\ calls[r] = << >>
            /\ pc[r] = "responded"
            /\ resp[r].status = 400
            /\ IsJson(r)
            /\ resp[r].body = ErrorBody("amount must > 0")

\* A configured user's request with amount = 0 has been answered.
C4_Witness ==
    \E r \in Requests :
        /\ IsInvoice(r)
        /\ request[r].query = "amount=0"
        /\ Known(r)
        /\ pc[r] = "responded"

\* C5: the description_hash given to every backend call of an invoice
\* request is the SHA-256 hex digest of the metadata string the info endpoint
\* returns for the same username, and all calls of a request carry one hash.
C5_HashConsistency ==
    /\ \A r1, r2 \in Requests :
          ( /\ IsInfo(r1) /\ pc[r1] = "responded" /\ resp[r1].status = 200
            /\ IsInvoice(r2) /\ request[r2].username = request[r1].username ) =>
              \A i \in DOMAIN calls[r2] :
                  calls[r2][i].description_hash = Sha256Hex(resp[r1].body.metadata)
    /\ \A r \in Requests :
          \A i, j \in DOMAIN calls[r] :
              calls[r][i].description_hash = calls[r][j].description_hash

\* An answered info request beside an invoice request of the same user that
\* is at its second backend call.
C5_Witness ==
    \E r1, r2 \in Requests :
        /\ IsInfo(r1) /\ pc[r1] = "responded" /\ resp[r1].status = 200
        /\ IsInvoice(r2) /\ request[r2].username = request[r1].username
        /\ Len(calls[r2]) >= 2

\* C6: at most one backend call of a request is in flight at any time, and
\* every call before the request's latest one has returned a failure.
C6_Sequential ==
    \A r \in Requests :
        /\ Cardinality({i \in DOMAIN calls[r] : calls[r][i].result = Pending}) <= 1
        /\ \A i \in 1..(Len(calls[r]) - 1) : calls[r][i].result.tag = "Err"

\* The second attempt is in flight after the first one failed.
C6_Witness ==
    \E r \in Requests :
        /\ pc[r] = "awaiting"
        /\ Len(calls[r]) = 2
        /\ calls[r][1].result.tag = "Err"
        /\ calls[r][2].result = Pending

\* C7 as stated: every answered request for an unknown username, on either
\* endpoint, is a 400 whose reason is "user <name> not found", with no
\* backend called.
C7_Original ==
    \A r \in Requests :
        (pc[r] = "responded" /\ ~Known(r)) =>
            /\ resp[r].status = 400
            /\ IsJson(r)
            /\ resp[r].body = ErrorBody("user " \o request[r].username \o " not found")
            /\ calls[r] = << >>

\* C7 (amended): every answered request for an unknown username is a 400
\* with no backend called; its reason is "user <name> not found" on the info
\* endpoint and on the invoice endpoint with a positive amount, and
\* "amount must > 0" on the invoice endpoint with amount = 0.
C7_UnknownUser ==
    \A r \in Requests :
        (pc[r] = "responded" /\ ~Known(r)) =>
            /\ resp[r].status = 400
            /\ calls[r] = << >>
            /\ (IsInfo(r) \/ request[r].query = "amount=1500") =>
                  /\ IsJson(r)
                  /\ resp[r].body =
                        ErrorBody("user " \o request[r].username \o " not found")
            /\ (IsInvoice(r) /\ request[r].query = "amount=0") =>
                  /\ IsJson(r)
                  /\ resp[r].body = ErrorBody("amount must > 0")

\* Both endpoints have answered a request for the unknown user, the invoice
\* request carrying a positive amount.
C7_Witness ==
    \E r1, r2 \in Requests :
        /\ pc[r1] = "responded" /\ IsInfo(r1) /\ ~Known(r1)
        /\ pc[r2] = "responded" /\ IsInvoice(r2) /\ ~Known(r2)
        /\ request[r2].query = "amount=1500"

\* C8: the calls of a request follow the permuted list; a failure is
\* answered to the client only when it is the last allowed attempt
\* (min(3, n) calls made, all failed), and otherwise the next backend is
\* tried, so a request with a succeeding call is answered 200 with the
\* invoice of the first backend in that order that succeeded.
C8_Failover ==
    \A r \in Requests :
        calls[r] # << >> =>
            /\ \A i \in DOMAIN calls[r] : calls[r][i].creator = creators[r][i]
            /\ pc[r] = "awaiting" => resp[r] = NoResponse
            /\ pc[r] \in {"awaiting", "responded"}
            /\ pc[r] = "responded" =>
                  IF AllFailed(r)
                  THEN /\ Len(calls[r]) = Min(3, Len(creators[r]))
                       /\ resp[r].status = 500
                  ELSE /\ \A i \in 1..(Len(calls[r]) - 1) :
                             calls[r][i].result.tag = "Err"
                       /\ calls[r][Len(calls[r])].result.tag = "Ok"
                       /\ resp[r].status = 200
                       /\ resp[r].body.pr = calls[r][Len(calls[r])].result.v

\* The first two backends of the permuted list failed, the third succeeded
\* and its invoice was returned.
C8_Witness ==
    \E r \in Requests :
        /\ pc[r] = "responded"
        /\ Len(calls[r]) = 3
        /\ calls[r][1].result.tag = "Err"
        /\ calls[r][2].result.tag = "Err"
        /\ calls[r][3].result.tag = "Ok"
        /\ calls[r][3].creator = creators[r][3]
        /\ resp[r].status = 200
        /\ resp[r].body.pr = calls[r][3].result.v

\* C9: every failure response has the body {status: "ERROR", reason}.
C9_ErrorShape ==
    \A r \in Requests :
        (pc[r] = "responded" /\ resp[r].status # 200) =>
            /\ IsJson(r)
            /\ DOMAIN resp[r].body = {"status", "reason"}
            /\ resp[r].body.status = "ERROR"

\* C10: once the service serves, no step changes the shared state: the
\* domain and every user's ordered backend list stay as built at start-up.
C10_StateImmutable == [][phase = "serving" => state' = state]_vars

\* A request holds a working list in another order than the configured one
\* while another request has been answered.
C10_Witness ==
    \E r1, r2 \in Requests :
        /\ r1 # r2
        /\ pc[r1] = "awaiting"
        /\ creators[r1] # Configured(r1)
        /\ pc[r2] = "responded"
        /\ state = AppStateNew(config)

\* C11: a configuration with a user without backends is rejected at start-up
\* with the error "user <name> has no NWC configured", so whenever the
\* service serves, every configured user has at least one backend.
C11_NonEmptyBackends ==
    /\ (\E i \in DOMAIN config.users : Len(config.users[i].nwcs) = 0) =>
          /\ phase # "serving"
          /\ state = NoState
          /\ phase = "exited" =>
                \E i \in DOMAIN config.users :
                    /\ Len(config.users[i].nwcs) = 0
                    /\ exit_err = [tag |-> "Some", v |-> [message |->
                          "user " \o config.users[i].name \o " has no NWC configured"]]
    /\ phase = "serving" =>
          /\ DOMAIN state.users = {config.users[i].name : i \in DOMAIN config.users}
          /\ \A name \in DOMAIN state.users : Len(state.users[name]) >= 1

\* Start-up has rejected the configuration in which alice has no backend.
C11_Witness ==
    /\ phase = "exited"
    /\ config.users[1].name = "alice"
    /\ config.users[1].nwcs = << >>
    /\ exit_err.tag = "Some"
    /\ exit_err.v.message = "user alice has no NWC configured"

\* The order of two u64 values held as hi * 10^9 + lo.
U64Le(a, b) == a.hi < b.hi \/ (a.hi = b.hi /\ a.lo <= b.lo)

\* C12: an info request for a configured username is answered 200 with
\* callback "https://<domain>/lnurlp/<username>", maxSendable 100000000000,
\* minSendable 1000 (so minSendable <= maxSendable), tag "payRequest" and the
\* generator's metadata for that username, and calls no backend.
C12_PayInfo ==
    \A r \in Requests :
        (IsInfo(r) /\ Known(r)) =>
            /\ pc[r] = "responded"
            /\ resp[r].status = 200
            /\ IsJson(r)
            /\ DOMAIN resp[r].body =
                  {"callback", "maxSendable", "minSendable", "metadata", "tag"}
            /\ resp[r].body.callback =
                  "https://" \o state.domain \o "/lnurlp/" \o request[r].username
            /\ resp[r].body.maxSendable = [hi |-> 100, lo |-> 0]
            /\ resp[r].body.minSendable = [hi |-> 0, lo |-> 1000]
            /\ U64Le(resp[r].body.minSendable, resp[r].body.maxSendable)
            /\ resp[r].body.tag = "payRequest"
            /\ resp[r].body.metadata = generate_metadata(state, request[r].username)
            /\ calls[r] = << >>
            /\ creators[r] = << >>

\* The info request for alice at example.com has been answered.
C12_Witness ==
    \E r \in Requests :
        /\ IsInfo(r)
        /\ request[r].username = "alice"
        /\ pc[r] = "responded"
        /\ resp[r].body.callback = "https://example.com/lnurlp/alice"

\* C13: unreachable!() is never reached: when the attempt loop of a request
\* ends without a success, at least one backend was attempted and the answer
\* carries the last error; no request ends with no attempt made.
C13_NoUnreachable ==
    \A r \in Requests :
        /\ pc[r] # "panicked"
        /\ (IsInvoice(r) /\ Known(r) /\ request[r].query = "amount=1500") =>
              /\ Len(creators[r]) >= 1
              /\ Len(calls[r]) >= 1
              /\ (pc[r] = "awaiting") => last_err[r] =
                    (IF Len(calls[r]) = 1 THEN [tag |-> "None"]
                     ELSE [tag |-> "Some", v |-> calls[r][Len(calls[r]) - 1].result.e])
              /\ (pc[r] = "responded" /\ resp[r].status # 200) =>
                    /\ AllFailed(r)
                    /\ resp[r].status = 500
                    /\ resp[r].body.reason =
                          calls[r][Len(calls[r])].result.e.message

\* The loop of a user with a single backend ended without a success.
C13_Witness ==
    \E r \in Requests :
        /\ pc[r] = "responded"
        /\ IsInvoice(r) /\ Known(r)
        /\ Len(Configured(r)) = 1
        /\ Len(calls[r]) = 1
        /\ AllFailed(r)
        /\ resp[r].status = 500

\* A step of request r itself.
C14_Move(r) ==
    /\ pc[r] = "idle" =>
          /\ pc'[r] \in {"idle", "awaiting", "responded"}
          /\ (pc'[r] = "responded" /\ request'[r].endpoint = "invoice") =>
                (resp'[r].status = 400 /\ calls'[r] = << >>)
          /\ pc'[r] = "awaiting" =>
                /\ request'[r].endpoint = "invoice"
                /\ request'[r].query = "amount=1500"
                /\ request'[r].username \in DOMAIN state.users
                /\ Len(calls'[r]) = 1
    /\ pc[r] = "awaiting" =>
          /\ pc'[r] \in {"awaiting", "responded"}
          /\ request'[r] = request[r]
          /\ pc'[r] = "awaiting" => Len(calls'[r]) = Len(calls[r]) + 1
          /\ pc'[r] = "responded" =>
                (resp'[r].status \in {200, 500} /\ Len(calls'[r]) = Len(calls[r]))
    /\ pc[r] = "responded" =>
          \/ pc'[r] = "idle"
          \/ pc'[r] = "responded" /\ resp'[r] = resp[r] /\ calls'[r] = calls[r]

\* The steps a request may take: from idle it is rejected (400), answered
\* (info) or validated and suspended in its first backend call; from a
\* backend call it goes to the next call or to its 200 or 500 answer; an
\* answered request keeps its answer and its calls until its slot is free.
C14_Step(r) ==
    \/ << pc[r], request[r], creators[r], calls[r], resp[r] >>' =
          << pc[r], request[r], creators[r], calls[r], resp[r] >>
    \/ C14_Move(r)

C14_State(r) ==
    /\ pc[r] \in {"idle", "awaiting", "responded"}
    /\ Len(calls[r]) <= 3
    /\ (pc[r] = "responded") <=> (resp[r] # NoResponse)
    /\ pc[r] = "responded" =>
          /\ resp[r].status \in {200, 400, 500}
          /\ \A i \in DOMAIN calls[r] : calls[r][i].result # Pending

\* C14: every request goes from its arrival either to a rejection or, once
\* validated, through at most 3 backend calls to one answer (200, 400 or
\* 500); with every backend call returning, a request suspended in a backend
\* call is eventually answered, and an answered request makes no further
\* call and keeps its one answer.
C14_OneOutcome ==
    /\ [](\A r \in Requests : C14_State(r))
    /\ [][\A r \in Requests : C14_Step(r)]_vars
    /\ \A r \in Requests : (pc[r] = "awaiting") ~> (pc[r] = "responded")

\* A request has been answered 500 after 3 backend calls, none left in
\* flight, while its user has more backends.
C14_Witness ==
    \E r \in Requests :
        /\ pc[r] = "responded"
        /\ Len(calls[r]) = 3
        /\ Len(creators[r]) > 3
        /\ resp[r].status = 500

\* All that a request holds.
Slot(r) == << pc[r], request[r], creators[r], idx[r], description_hash[r],
              last_err[r], calls[r], resp[r] >>

\* C15: a request suspended in a backend call keeps no other request from
\* progressing: whatever the other requests do, a suspended request can
\* resume and a free slot can take a request of any user; a step changes one
\* request only and leaves the shared state alone; and a request's attempts
\* follow its own shuffle within its own bound, its answer being determined
\* by its own username, amount, shuffle and call results.
C15_Independent ==
    /\ [](\A r \in Requests :
            /\ pc[r] = "awaiting" => ENABLED backend_returns(r)
            /\ (phase = "serving" /\ pc[r] = "idle") =>
                  \A u \in Usernames :
                      /\ ENABLED get_lnurlp_info(r, u)
                      /\ ENABLED create_invoice(r, u, "amount=1500")
            /\ Len(calls[r]) <= Min(3, Len(creators[r]))
            /\ \A i \in DOMAIN calls[r] : calls[r][i].creator = creators[r][i]
            /\ \A q \in Requests :
                  ( /\ pc[q] = "responded" /\ pc[r] = "responded"
                    /\ request[q] = request[r]
                    /\ creators[q] = creators[r]
                    /\ calls[q] = calls[r] ) => resp[q] = resp[r])
    /\ [][ /\ phase = "serving" => state' = state
           /\ \A r, q \in Requests :
                 r # q => (Slot(r)' = Slot(r) \/ Slot(q)' = Slot(q)) ]_vars

\* Two requests of the same user with their first calls made: one is still
\* suspended in it, the other has failed over and been answered.
C15_Witness ==
    \E r, q \in Requests :
        /\ r # q
        /\ request[r].username = request[q].username
        /\ pc[r] = "awaiting" /\ Len(calls[r]) = 1
        /\ pc[q] = "responded" /\ Len(calls[q]) = 2

\* The sequences that hold every element of list exactly once.
PermutationsOf(list) ==
    { p \in [DOMAIN list -> Range(list)] :
        \A i \in DOMAIN list :
            Cardinality({j \in DOMAIN p : p[j] = list[i]}) =
            Cardinality({j \in DOMAIN list : list[j] = list[i]}) }

\* The longest backend list whose every permutation is tried one by one.
MaxPermLen == 4

\* C16: the working list of a request is a permutation of its user's
\* configured backends, and every permutation can be the attempt order: a
\* request arriving at the idle service can have each configured backend as
\* the first one attempted and, for lists up to MaxPermLen, each permutation
\* as its working list.
C16_Permutation ==
    /\ \A r \in Requests :
          (IsInvoice(r) /\ Known(r) /\ request[r].query = "amount=1500") =>
              /\ Len(creators[r]) = Len(Configured(r))
              /\ creators[r] \in PermutationsOf(Configured(r))
    /\ (phase = "serving" /\ \A q \in Requests : pc[q] = "idle") =>
          \A u \in DOMAIN state.users :
              /\ \A i \in DOMAIN state.users[u] :
                    ENABLED ( /\ create_invoice(1, u, "amount=1500")
                              /\ calls'[1][1].creator = state.users[u][i] )
              /\ Len(state.users[u]) <= MaxPermLen =>
                    \A p \in PermutationsOf(state.users[u]) :
                        ENABLED ( /\ create_invoice(1, u, "amount=1500")
                                  /\ creators'[1] = p
                                  /\ calls'[1][1].creator = p[1] )

\* The first call of a request went to the last of 5 configured backends.
C16_Witness ==
    \E r \in Requests :
        /\ IsInvoice(r) /\ Known(r)
        /\ Len(Configured(r)) = 5
        /\ calls[r] # << >>
        /\ calls[r][1].creator = Configured(r)[5]
        /\ creators[r] # Configured(r)

\* The backend was called for request r and its call failed.
FailedFor(r, creator) ==
    \E j \in DOMAIN calls[r] :
        calls[r][j].creator = creator /\ calls[r][j].result.tag = "Err"

\* C17: an answered invoice request of a configured user with at most 3
\* backends and amount > 0 is answered 500 exactly when every one of the
\* user's backends was called and failed, and 200 as soon as one of its
\* calls succeeded, whatever order the shuffle gave.
C17_AllOrNothing ==
    \A r \in Requests :
        ( /\ pc[r] = "responded" /\ IsInvoice(r) /\ Known(r)
          /\ request[r].query = "amount=1500"
          /\ Len(Configured(r)) <= 3 ) =>
            /\ resp[r].status \in {OK, INTERNAL_SERVER_ERROR}
            /\ resp[r].status = INTERNAL_SERVER_ERROR <=>
                  \A i \in DOMAIN Configured(r) : FailedFor(r, Configured(r)[i])
            /\ (\E j \in DOMAIN calls[r] : calls[r][j].result.tag = "Ok") <=>
                  resp[r].status = OK

\* A user's 3 backends were called in an order other than the configured
\* one, all three failed, and the answer is a 500.
C17_Witness ==
    \E r \in Requests :
        /\ pc[r] = "responded" /\ IsInvoice(r) /\ Known(r)
        /\ Len(Configured(r)) = 3
        /\ creators[r] # Configured(r)
        /\ Len(calls[r]) = 3
        /\ \A i \in 1..3 : FailedFor(r, Configured(r)[i])
        /\ resp[r].status = INTERNAL_SERVER_ERROR

\* C18: the amount check precedes the username lookup, which precedes the
\* shuffle, the metadata hash and every backend call: an invoice request with
\* amount = 0 for an unknown username is answered "amount must > 0" and not
\* "user <name> not found"; one with a positive amount for an unknown
\* username is answered "user <name> not found"; and a request has a working
\* list, a description hash or a call only if its amount is positive and its
\* username is configured, every call carrying that user's hash.
C18_ValidationOrder ==
    \A r \in Requests :
        /\ (pc[r] = "responded" /\ IsInvoice(r) /\ ~Known(r)
              /\ request[r].query = "amount=0") =>
                /\ resp[r] = IntoResponse(
                       HttpErrorNew(BAD_REQUEST, Lud06ErrorNew("amount must > 0")))
                /\ resp[r].body.reason # NotFoundReason(request[r].username)
        /\ (pc[r] = "responded" /\ IsInvoice(r) /\ ~Known(r)
              /\ request[r].query = "amount=1500") =>
                resp[r] = IntoResponse(UserNotFound(request[r].username))
        /\ (creators[r] # << >> \/ description_hash[r] # "" \/ calls[r] # << >>) =>
                /\ IsInvoice(r) /\ Known(r)
                /\ QueryExtract(request[r].query).tag = "Ok"
                /\ AmountOf(request[r].query) > 0
                /\ \A i \in DOMAIN calls[r] :
                      calls[r][i].description_hash =
                          DescriptionHash(state, request[r].username)

\* The unknown user's invoice request with amount = 0 was answered while
\* another request, for a configured user, has its first backend call out.
C18_Witness ==
    \E r, q \in Requests :
        /\ pc[r] = "responded" /\ IsInvoice(r) /\ ~Known(r)
        /\ request[r].query = "amount=0"
        /\ resp[r].body = ErrorBody("amount must > 0")
        /\ pc[q] = "awaiting" /\ Known(q) /\ Len(calls[q]) = 1
        /\ description_hash[q] # ""

====
